---- MODULE Spec2Model ----
(***************************************************************************)
(* Cadence: a single-track audio player.                                   *)
(*                                                                         *)
(*   core/cadence-core/src/lib.rs      Player: the rodio sink and the two  *)
(*                                     decode paths, pause/resume/stop and *)
(*                                     seek_approx                         *)
(*   apps/cadence-desktop/src/main.rs  PlayerService and its worker thread *)
(*                                     player_loop, fed by an mpsc channel *)
(*   tools/cadence-cli/src/main.rs     the command shell                   *)
(*                                                                         *)
(* Spec         the desktop service: construction, the command channel and *)
(*              the worker thread.                                         *)
(* SpecSession  one playback session driven through the controller         *)
(*              operations, with the playback clock.                       *)
(* SpecCli      the command shell: the initial play, then one command per  *)
(*              line of input.                                             *)
(***************************************************************************)
EXTENDS Integers, Sequences, FiniteSets, TLC

VARIABLES
    sink,        \* the rodio Sink behind Player.sink: [queue, paused]
    device,      \* whether a default output device exists
    service,     \* PlayerService::new: "constructing", "ok" or "err"
    ready,       \* the ready channel of PlayerService::new (messages in flight)
    worker,      \* the worker thread: "unspawned", "spawned", "recv", "play", "exited"
    receiver,    \* the command channel: commands sent and not yet received
    current,     \* the Play command whose decode is in progress (Option)
    senders,     \* number of live Sender<Command> handles
    sent,        \* history: every command accepted by the channel, in order
    done,        \* history: every command the worker has completed, in order
    replies,     \* per Play command (by its index in sent): messages on its reply channel
    callerGone,  \* the Play commands whose reply receiver has been dropped
    clock,       \* the playback clock: [state, position_ms, running_since]
    track,       \* the locator of the loaded track (Option)
    info,        \* the TrackInfo of the loaded track (Option)
    now,         \* wall-clock time, in ms
    last,        \* the last controller operation: [op, arg, res, pre]
    cli,         \* the command shell: [pc, path, exit, line]
    load         \* one load of one file: [pc, path, file, via, out]

cvars == <<clock, track, info, now, last, cli, load>>
vars == <<sink, device, service, ready, worker, receiver, current, senders,
          sent, done, replies, callerGone, clock, track, info, now, last, cli,
          load>>

----------------------------------------------------------------------------
(* Bounds of the model.                                                    *)

MaxCmds == 3     \* commands sent to the worker in one run
MaxTime == 4     \* wall-clock ticks in one run
MaxPkts == 3     \* packets read from one stream

----------------------------------------------------------------------------
(* Option<T> and Result<T, E>.                                             *)

None == <<>>
Some(x) == <<x>>

Ok(v) == [ok |-> TRUE, val |-> Some(v), err |-> ""]
Unit == [ok |-> TRUE, val |-> None, err |-> ""]
Err(e) == [ok |-> FALSE, val |-> None, err |-> e]

Max(a, b) == IF a >= b THEN a ELSE b

----------------------------------------------------------------------------
(* The files a locator can name.  opens: File::open succeeds.  rodio:      *)
(* rodio's Decoder::new accepts the file; total_duration is what it       *)
(* reports.  probe: symphonia probes the format, finds a default track and *)
(* makes a decoder; sample_rate/channels are the codec parameters; packets *)
(* is what next_packet and decode yield, in order, up to end of stream.    *)
(* length is the audio the file really holds, which rodio's decoder plays *)
(* whether or not it can report it.  Durations are in ms; the sample rates *)
(* are scaled down so that a few samples last seconds.                     *)

Pkt(k, s, r, c) == [kind |-> k, samples |-> s, rate |-> r, channels |-> c]

Locators == {"a.wav", "b.ogg", "c.txt", "d.mp3"}

FileTable ==
    [p \in Locators |->
        CASE p = "a.wav" ->
               [opens |-> TRUE, rodio |-> TRUE, total_duration |-> Some(3000),
                length |-> 3000,
                probe |-> TRUE, sample_rate |-> Some(1), channels |-> Some(2),
                packets |-> << Pkt("ok", <<1, 2, 3, 4>>, 1, 2),
                               Pkt("ok", <<5, 6>>, 1, 2) >>]
          [] p = "b.ogg" ->
               [opens |-> TRUE, rodio |-> FALSE, total_duration |-> None,
                length |-> 2000,
                probe |-> TRUE, sample_rate |-> None, channels |-> None,
                packets |-> << Pkt("ok", <<1, 2>>, 1, 2),
                               Pkt("decode_error", <<>>, 0, 0),
                               Pkt("reset", <<>>, 0, 0),
                               Pkt("other_track", <<9>>, 1, 2),
                               Pkt("ok", <<3, 4>>, 1, 2) >>]
          [] p = "c.txt" ->
               [opens |-> TRUE, rodio |-> FALSE, total_duration |-> None,
                length |-> 0,
                probe |-> FALSE, sample_rate |-> None, channels |-> None,
                packets |-> << >>]
          [] OTHER ->
               [opens |-> TRUE, rodio |-> TRUE, total_duration |-> None,
                length |-> 2000,
                probe |-> TRUE, sample_rate |-> Some(1), channels |-> Some(1),
                packets |-> << Pkt("ok", <<1, 2>>, 1, 1),
                               Pkt("io_error", <<>>, 0, 0) >>]]

----------------------------------------------------------------------------
(* The rodio Sink: a queue of sources and the pause flag.  A queued source *)
(* is [path, via, skip, left, samples]: the file it decodes, the decoder   *)
(* that produced it, the duration skipped at its start, the audio it still *)
(* has to play (ms) and, for a buffer decoded ahead of time, its samples.  *)

Source(p, v, k, n, x) ==
    [path |-> p, via |-> v, skip |-> k, left |-> n, samples |-> x]

NewSink == [queue |-> <<>>, paused |-> FALSE]

sink_stop(s) == [s EXCEPT !.queue = <<>>]
sink_append(s, src) == [s EXCEPT !.queue = Append(@, src)]
sink_play(s) == [s EXCEPT !.paused = FALSE]
sink_pause(s) == [s EXCEPT !.paused = TRUE]

(* As sink_run, but a source never comes to its end. *)
sink_run_without_end(s, d) == s

(* What the output device does to the sink in d ms: an unpaused sink plays *)
(* the source at the head of its queue and drops it once it has ended.    *)
sink_run(s, d) ==
    IF s.paused \/ s.queue = <<>> THEN s
    ELSE IF s.queue[1].left <= d THEN [s EXCEPT !.queue = Tail(@)]
    ELSE [s EXCEPT !.queue[1].left = @ - d]

(* As pause, but the sink is left as it is. *)
pause_ignored(s) == s

(* As stop, but the sink is paused and keeps its queue. *)
stop_keeps_queue(s) == sink_pause(s)

(* Player::pause, Player::resume, Player::stop *)
pause(s) == sink_pause(s)
resume(s) == sink_play(s)
stop(s) == sink_stop(s)

(* Player::new_default: fails without a default output device *)
new_default(dev) ==
    IF dev THEN [res |-> Unit, sink |-> NewSink]
    ELSE [res |-> Err("No default output device available"), sink |-> NewSink]

----------------------------------------------------------------------------
(* Path::to_string_lossy: a path that is valid UTF-8 is its own string;    *)
(* every byte sequence that is not becomes U+FFFD.  A locator is written   *)
(* as a string in which \x.. is a byte that is not UTF-8.                  *)
to_string_lossy(p) ==
    CASE p = "caf\\xE9.wav" -> "caf\\uFFFD.wav"
      [] OTHER -> p

(* Player::load_and_play: the fast path.  Every fallible step comes before *)
(* the sink is touched.                                                    *)

(* As load_and_play, but the sink is not told to play after the append. *)
load_and_play_no_resume(s, p) ==
    LET f == FileTable[p] IN
    IF ~f.opens THEN [res |-> Err("rodio: Failed to open"), sink |-> s]
    ELSE IF ~f.rodio THEN [res |-> Err("rodio: Unsupported/invalid audio"), sink |-> s]
    ELSE LET dur == f.total_duration
             s1 == sink_stop(s)
             s2 == sink_append(s1, Source(p, "rodio", 0, f.length, <<>>))
         IN [res |-> Ok([path |-> to_string_lossy(p), duration_ms |-> dur]),
             sink |-> s2]

(* As load_and_play, but the new source is appended without a stop. *)
load_and_play_on_no_stop(s, p, f) ==
    IF ~f.opens THEN [res |-> Err("rodio: Failed to open"), sink |-> s]
    ELSE IF ~f.rodio THEN [res |-> Err("rodio: Unsupported/invalid audio"), sink |-> s]
    ELSE LET dur == f.total_duration
             s2 == sink_append(s, Source(p, "rodio", 0, f.length, <<>>))
             s3 == sink_play(s2)
         IN [res |-> Ok([path |-> to_string_lossy(p), duration_ms |-> dur]),
             sink |-> s3]

load_and_play_on(s, p, f) ==
    IF ~f.opens THEN [res |-> Err("rodio: Failed to open"), sink |-> s]
    ELSE IF ~f.rodio THEN [res |-> Err("rodio: Unsupported/invalid audio"), sink |-> s]
    ELSE LET dur == f.total_duration
             s1 == sink_stop(s)
             s2 == sink_append(s1, Source(p, "rodio", 0, f.length, <<>>))
             s3 == sink_play(s2)
         IN [res |-> Ok([path |-> to_string_lossy(p), duration_ms |-> dur]),
             sink |-> s3]

(* load_and_play on the file the locator names *)
load_and_play(s, p) == load_and_play_on(s, p, FileTable[p])

(* As decode_loop, but a packet that fails to decode ends the stream. *)
RECURSIVE decode_loop_ends_at_bad_packet(_, _, _, _, _)
decode_loop_ends_at_bad_packet(pkts, i, pcm, sr, ch) ==
    IF i > Len(pkts)
    THEN [ok |-> TRUE, pcm |-> pcm, sr |-> sr, ch |-> ch]
    ELSE LET pkt == pkts[i] IN
         CASE pkt.kind = "reset" ->
                decode_loop_ends_at_bad_packet(pkts, i + 1, pcm, sr, ch)
           [] pkt.kind = "eof" -> [ok |-> TRUE, pcm |-> pcm, sr |-> sr, ch |-> ch]
           [] pkt.kind = "io_error" -> [ok |-> FALSE, pcm |-> pcm, sr |-> sr, ch |-> ch]
           [] pkt.kind = "other_track" ->
                decode_loop_ends_at_bad_packet(pkts, i + 1, pcm, sr, ch)
           [] pkt.kind = "ok" ->
                decode_loop_ends_at_bad_packet(pkts, i + 1, pcm \o pkt.samples,
                                               pkt.rate, pkt.channels)
           [] pkt.kind = "decode_error" ->
                [ok |-> TRUE, pcm |-> pcm, sr |-> sr, ch |-> ch]
           [] OTHER -> [ok |-> FALSE, pcm |-> pcm, sr |-> sr, ch |-> ch]

(* The packet loop of Player::load_and_play_symphonia.  The kinds of a     *)
(* packet: "ok" decodes to samples; "other_track" belongs to another       *)
(* track; "decode_error" is DecodeError; "reset" is ResetRequired; "eof"   *)
(* is the UnexpectedEof that ends the stream, as does the end of the list; *)
(* "io_error", "decode_fatal" and any other kind are the errors that fail  *)
(* the load.                                                               *)
RECURSIVE decode_loop(_, _, _, _, _)
decode_loop(pkts, i, pcm, sr, ch) ==
    IF i > Len(pkts)
    THEN [ok |-> TRUE, pcm |-> pcm, sr |-> sr, ch |-> ch]
    ELSE LET pkt == pkts[i] IN
         CASE pkt.kind = "reset" -> decode_loop(pkts, i + 1, pcm, sr, ch)
           [] pkt.kind = "eof" -> [ok |-> TRUE, pcm |-> pcm, sr |-> sr, ch |-> ch]
           [] pkt.kind = "io_error" -> [ok |-> FALSE, pcm |-> pcm, sr |-> sr, ch |-> ch]
           [] pkt.kind = "other_track" -> decode_loop(pkts, i + 1, pcm, sr, ch)
           [] pkt.kind = "ok" ->
                decode_loop(pkts, i + 1, pcm \o pkt.samples, pkt.rate, pkt.channels)
           [] pkt.kind = "decode_error" -> decode_loop(pkts, i + 1, pcm, sr, ch)
           [] OTHER -> [ok |-> FALSE, pcm |-> pcm, sr |-> sr, ch |-> ch]

DefaultSampleRate == 48000
DefaultChannels == 2

unwrap_or(opt, d) == IF opt = None THEN d ELSE opt[1]

(* As load_and_play_symphonia, but the sink is stopped before the decode. *)
load_and_play_symphonia_stop_first(s, p) ==
    LET f == FileTable[p]
        s1 == sink_stop(s)
    IN
    IF ~f.opens THEN [res |-> Err("symphonia: open"), sink |-> s1]
    ELSE IF ~f.probe THEN [res |-> Err("symphonia: probe format"), sink |-> s1]
    ELSE LET d == decode_loop(f.packets, 1, <<>>,
                              unwrap_or(f.sample_rate, DefaultSampleRate),
                              unwrap_or(f.channels, DefaultChannels))
         IN IF ~d.ok THEN [res |-> Err("symphonia: decode"), sink |-> s1]
            ELSE LET duration_ms ==
                         IF d.ch > 0 /\ d.sr > 0
                         THEN Some((Len(d.pcm) * 1000) \div (d.sr * d.ch))
                         ELSE None
                     s2 == sink_append(s1, Source(p, "symphonia", 0,
                                                 unwrap_or(duration_ms, 0), d.pcm))
                     s3 == sink_play(s2)
                 IN [res |-> Ok([path |-> to_string_lossy(p),
                             duration_ms |-> duration_ms]),
                     sink |-> s3]

(* As load_and_play_symphonia, but an unknown duration is reported as 0. *)
load_and_play_symphonia_on_zero_duration(s, p, f) ==
    IF ~f.opens THEN [res |-> Err("symphonia: open"), sink |-> s]
    ELSE IF ~f.probe THEN [res |-> Err("symphonia: probe format"), sink |-> s]
    ELSE LET d == decode_loop(f.packets, 1, <<>>,
                              unwrap_or(f.sample_rate, DefaultSampleRate),
                              unwrap_or(f.channels, DefaultChannels))
         IN IF ~d.ok THEN [res |-> Err("symphonia: decode"), sink |-> s]
            ELSE LET duration_ms ==
                         IF d.ch > 0 /\ d.sr > 0
                         THEN Some((Len(d.pcm) * 1000) \div (d.sr * d.ch))
                         ELSE Some(0)
                     s1 == sink_stop(s)
                     s2 == sink_append(s1, Source(p, "symphonia", 0,
                                                 unwrap_or(duration_ms, 0), d.pcm))
                     s3 == sink_play(s2)
                 IN [res |-> Ok([path |-> to_string_lossy(p),
                             duration_ms |-> duration_ms]),
                     sink |-> s3]

(* Player::load_and_play_symphonia: the fallback path. *)
load_and_play_symphonia_on(s, p, f) ==
    IF ~f.opens THEN [res |-> Err("symphonia: open"), sink |-> s]
    ELSE IF ~f.probe THEN [res |-> Err("symphonia: probe format"), sink |-> s]
    ELSE LET d == decode_loop(f.packets, 1, <<>>,
                              unwrap_or(f.sample_rate, DefaultSampleRate),
                              unwrap_or(f.channels, DefaultChannels))
         IN IF ~d.ok THEN [res |-> Err("symphonia: decode"), sink |-> s]
            ELSE LET duration_ms ==
                         IF d.ch > 0 /\ d.sr > 0
                         THEN Some((Len(d.pcm) * 1000) \div (d.sr * d.ch))
                         ELSE None
                     s1 == sink_stop(s)
                     s2 == sink_append(s1, Source(p, "symphonia", 0,
                                                 unwrap_or(duration_ms, 0), d.pcm))
                     s3 == sink_play(s2)
                 IN [res |-> Ok([path |-> to_string_lossy(p),
                             duration_ms |-> duration_ms]),
                     sink |-> s3]

(* load_and_play_symphonia on the file the locator names *)
load_and_play_symphonia(s, p) == load_and_play_symphonia_on(s, p, FileTable[p])

(* As play_command, but the fast path's error is the result. *)
play_command_no_fallback(s, p) ==
    LET fast == load_and_play(s, p) IN
    [res |-> fast.res, sink |-> fast.sink,
     fast |-> IF fast.res.ok THEN "ok" ELSE "err", fallback |-> "not_tried"]

(* The Play arm of player_loop: the fast path, then the fallback. *)
play_command(s, p) ==
    LET fast == load_and_play(s, p) IN
    IF fast.res.ok
    THEN [res |-> fast.res, sink |-> fast.sink, fast |-> "ok", fallback |-> "not_tried"]
    ELSE LET fb == load_and_play_symphonia(fast.sink, p)
         IN [res |-> fb.res, sink |-> fb.sink, fast |-> "err",
             fallback |-> IF fb.res.ok THEN "ok" ELSE "err"]

(* Player::seek_approx: stop and re-queue from an offset.  outcome tells   *)
(* which return was taken: "failed", "stopped" (past the end) or "queued". *)
seek_approx(s, p, to_ms) ==
    LET f == FileTable[p] IN
    IF ~f.opens \/ ~f.rodio
    THEN [res |-> Err("rodio: seek decode"), sink |-> s, outcome |-> "failed"]
    ELSE IF f.total_duration # None /\ to_ms >= f.total_duration[1]
    THEN [res |-> Unit, sink |-> stop(s), outcome |-> "stopped"]
    ELSE LET s1 == sink_stop(s)
             s2 == sink_append(s1, Source(p, "rodio", to_ms,
                                         Max(0, f.length - to_ms), <<>>))
             s3 == sink_play(s2)
         IN [res |-> Unit, sink |-> s3, outcome |-> "queued"]

----------------------------------------------------------------------------
(* The desktop service.  A command in the channel is [type, path, id, at]: *)
(* id is its position in the order of sending, which also names the reply *)
(* channel of a Play; at records what the worker was doing when it was     *)
(* sent.                                                                   *)

Cmd(t, p, i, w) == [type |-> t, path |-> p, id |-> i, at |-> w]

SimpleCommands == {"Pause", "Resume", "Stop"}

Entry(c, f, fb, r, rep) ==
    [cmd |-> c, fast |-> f, fallback |-> fb, res |-> r, replied |-> rep]

(* As channel_recv, but the newest message is taken first. *)
channel_recv_newest(ch) == [msg |-> ch[Len(ch)], rest |-> SubSeq(ch, 1, Len(ch) - 1)]

(* mpsc: send appends to the channel, recv takes its head. *)
channel_send(ch, m) == Append(ch, m)
channel_recv(ch) == [msg |-> Head(ch), rest |-> Tail(ch)]

InitClock == [state |-> "Stopped", position_ms |-> 0, running_since |-> None]
NoCall ==
    [op |-> "none", arg |-> 0, res |-> Unit,
     pre |-> [state |-> "Stopped", position |-> 0, queued |-> FALSE,
              paused |-> FALSE, prev |-> "none"]]

NoLoad == [pc |-> "none", path |-> "", file |-> <<>>, via |-> "", out |-> <<>>]

NoCli == [pc |-> "none", path |-> "", exit |-> None, line |-> <<>>]

Init ==
    /\ sink = NewSink
    /\ device \in BOOLEAN
    /\ service = "constructing"
    /\ ready = <<>>
    /\ worker = "unspawned"
    /\ receiver = <<>>
    /\ current = None
    /\ senders = 1
    /\ sent = <<>>
    /\ done = <<>>
    /\ replies = [i \in 1..MaxCmds |-> <<>>]
    /\ callerGone = {}
    /\ clock = InitClock
    /\ track = None
    /\ info = None
    /\ now = 0
    /\ last = NoCall
    /\ load = NoLoad
    /\ cli = NoCli

(* PlayerService::new, lines 24-30: create the channels, spawn the worker. *)
Spawn ==
    /\ service = "constructing"
    /\ worker = "unspawned"
    /\ \E spawned \in BOOLEAN :
          IF spawned
          THEN /\ worker' = "spawned"
               /\ UNCHANGED <<service, senders>>
          ELSE /\ service' = "err"
               /\ senders' = 0
               /\ UNCHANGED worker
    /\ UNCHANGED <<sink, device, ready, receiver, current, sent, done, replies,
                   callerGone>>
    /\ UNCHANGED cvars

(* As after_init, but the loop is entered whatever new_default returned. *)
after_init_no_return(res) == "recv"

(* player_loop, lines 53-62: where the worker goes after initialisation.   *)
after_init(res) == IF res.ok THEN "recv" ELSE "exited"

(* player_loop, lines 53-62: initialise the player, report on ready. *)
PlayerLoopInit ==
    /\ worker = "spawned"
    /\ LET r == new_default(device) IN
          IF r.res.ok
          THEN /\ ready' = channel_send(ready, Unit)
               /\ sink' = r.sink
          ELSE /\ ready' = channel_send(ready, r.res)
               /\ UNCHANGED sink
    /\ worker' = after_init(new_default(device).res)
    /\ UNCHANGED <<device, service, receiver, current, senders, sent, done,
                   replies, callerGone>>
    /\ UNCHANGED cvars

(* PlayerService::new, lines 33-36: wait for the worker's report. *)
NewReturn ==
    /\ service = "constructing"
    /\ ready # <<>>
    /\ LET m == channel_recv(ready) IN
          /\ ready' = m.rest
          /\ IF m.msg.ok
             THEN service' = "ok" /\ UNCHANGED senders
             ELSE service' = "err" /\ senders' = 0
    /\ UNCHANGED <<sink, device, worker, receiver, current, sent, done, replies,
                   callerGone>>
    /\ UNCHANGED cvars

(* Sender::send as PlayerService uses it: an error once the receiver is    *)
(* gone, otherwise the command joins the channel.                          *)
Send(t, p) ==
    /\ service = "ok"
    /\ senders > 0
    /\ Len(sent) < MaxCmds
    /\ worker # "exited"
    /\ LET c == Cmd(t, p, Len(sent) + 1, worker) IN
          /\ receiver' = channel_send(receiver, c)
          /\ sent' = Append(sent, c)
    /\ UNCHANGED <<sink, device, service, ready, worker, current, senders, done,
                   replies, callerGone>>
    /\ UNCHANGED cvars

(* PlayerService::play, lines 40-43 *)
PlayerService_play == \E p \in Locators : Send("Play", p)

(* PlayerService::send_simple *)
send_simple == \E t \in SimpleCommands : Send(t, "")

(* The caller of PlayerService::play goes away before the reply arrives:   *)
(* its reply receiver is dropped.                                          *)
CallerDrops ==
    /\ \E i \in 1..Len(sent) :
          /\ sent[i].type = "Play"
          /\ replies[i] = <<>>
          /\ i \notin callerGone
          /\ callerGone' = callerGone \cup {i}
    /\ UNCHANGED <<sink, device, service, ready, worker, receiver, current,
                   senders, sent, done, replies>>
    /\ UNCHANGED cvars

(* The application exits: the managed PlayerService and its sender drop.   *)
DropService ==
    /\ service = "ok"
    /\ senders > 0
    /\ senders' = 0
    /\ UNCHANGED <<sink, device, service, ready, worker, receiver, current, sent,
                   done, replies, callerGone>>
    /\ UNCHANGED cvars

(* player_loop, line 64 and lines 76-78: take the next command; Pause,     *)
(* Resume and Stop are applied at once, a Play starts its decode.          *)
WorkerRecv ==
    /\ worker = "recv"
    /\ receiver # <<>>
    /\ LET m == channel_recv(receiver)
           c == m.msg
       IN /\ receiver' = m.rest
          /\ IF c.type = "Play"
             THEN /\ current' = Some(c)
                  /\ worker' = "play"
                  /\ UNCHANGED <<sink, done>>
             ELSE /\ sink' = CASE c.type = "Pause" -> pause(sink)
                               [] c.type = "Resume" -> resume(sink)
                               [] OTHER -> stop(sink)
                  /\ done' = Append(done, Entry(c, "n/a", "n/a", Unit, FALSE))
                  /\ UNCHANGED <<current, worker>>
    /\ UNCHANGED <<device, service, ready, senders, sent, replies, callerGone>>
    /\ UNCHANGED cvars

(* As after_play, but a failed Play ends the loop. *)
after_play_exit_on_error(r) == IF r.res.ok THEN "recv" ELSE "exited"

(* What the worker does once a Play has been handled. *)
after_play(r) == "recv"

(* player_loop, lines 66-75: decode, queue, reply; a closed reply channel  *)
(* is ignored.                                                             *)
WorkerPlay ==
    /\ worker = "play"
    /\ LET c == current[1]
           r == play_command(sink, c.path)
           open == c.id \notin callerGone
       IN /\ sink' = r.sink
          /\ replies' = IF open THEN [replies EXCEPT ![c.id] = Append(@, r.res)]
                        ELSE replies
          /\ done' = Append(done, Entry(c, r.fast, r.fallback, r.res, open))
          /\ worker' = after_play(r)
    /\ current' = None
    /\ UNCHANGED <<device, service, ready, receiver, senders, sent, callerGone>>
    /\ UNCHANGED cvars

(* player_loop, line 64: recv fails once the channel is empty and every    *)
(* sender is gone; the loop ends.                                          *)
WorkerExit ==
    /\ worker = "recv"
    /\ receiver = <<>>
    /\ senders = 0
    /\ worker' = "exited"
    /\ UNCHANGED <<sink, device, service, ready, receiver, current, senders, sent,
                   done, replies, callerGone>>
    /\ UNCHANGED cvars

Next ==
    \/ Spawn
    \/ PlayerLoopInit
    \/ NewReturn
    \/ PlayerService_play
    \/ send_simple
    \/ CallerDrops
    \/ DropService
    \/ WorkerRecv
    \/ WorkerPlay
    \/ WorkerExit

Spec == Init /\ [][Next]_vars

(* The worker is a thread of its own: while a command waits in the channel *)
(* or a Play is being handled, it takes its next step.                     *)
SpecFair == Spec /\ WF_vars(WorkerRecv \/ WorkerPlay)

----------------------------------------------------------------------------
(* Properties of the desktop service (Spec).                               *)

PlayEntries == {i \in 1..Len(done) : done[i].cmd.type = "Play"}

(* C1: a failure of the fast path (load_and_play) is never the final       *)
(* result of a Play: the fallback (load_and_play_symphonia) is attempted   *)
(* next and the caller receives an error only if the fallback failed, and  *)
(* then the fallback's error.  Stated for the worker's Play commands and   *)
(* for the shell's initial play.                                           *)
C1_FastFailureFallsBack ==
    /\ \A i \in PlayEntries :
          LET e == done[i]
              fast == load_and_play(NewSink, e.cmd.path).res
              fb == load_and_play_symphonia(NewSink, e.cmd.path).res
          IN /\ e.fast = (IF fast.ok THEN "ok" ELSE "err")
             /\ ~fast.ok =>
                   /\ e.fallback \in {"ok", "err"}
                   /\ e.res = fb
                   /\ (~e.res.ok <=> e.fallback = "err")
                   /\ e.replied => replies[e.cmd.id] = <<fb>>
    /\ (cli.pc = "exited" /\ last.op = "start" /\ new_default(device).res.ok)
          => cli.exit = Some(load_and_play_symphonia(NewSink, cli.path).res)

(* The worker's part of C1: every Play it has handled whose fast path      *)
(* failed went on to the fallback and was answered with its result.        *)
WorkerFallsBack ==
    \A i \in PlayEntries :
        (done[i].fast = "err")
            => /\ done[i].fallback \in {"ok", "err"}
               /\ done[i].res = load_and_play_symphonia(NewSink, done[i].cmd.path).res

(* C4: the worker applies the commands in the order they were sent, one at *)
(* a time: what it has completed is a prefix of what was sent, the Play in *)
(* progress is the next one, everything sent later is still waiting in the *)
(* channel; and once a run whose last command is Stop has been worked off, *)
(* nothing is queued in the sink.                                          *)
C4_ArrivalOrder ==
    /\ Len(done) <= Len(sent)
    /\ \A i \in 1..Len(done) : done[i].cmd = sent[i]
    /\ worker = "play" =>
          /\ Len(done) < Len(sent)
          /\ current = Some(sent[Len(done) + 1])
          /\ receiver = SubSeq(sent, Len(done) + 2, Len(sent))
    /\ worker # "play" =>
          /\ current = None
          /\ receiver = SubSeq(sent, Len(done) + 1, Len(sent))
    /\ (sent # <<>> /\ Len(done) = Len(sent) /\ sent[Len(sent)].type = "Stop")
          => sink.queue = <<>>

(* A Stop sent while the decode of the Play before it was in progress; the *)
(* Play succeeded, and both have been worked off.                          *)
C4_Witness ==
    /\ Len(sent) = 2 /\ Len(done) = 2
    /\ sent[1].type = "Play" /\ done[1].res.ok
    /\ sent[2].type = "Stop" /\ sent[2].at = "play"
    /\ sink.queue = <<>>

(* C5: the worker does not end because a command failed: it has exited     *)
(* only if initialisation failed, or if every sender is gone and every     *)
(* command sent has been worked off; while a sender exists it is running.  *)
C5_WorkerSurvivesFailure ==
    /\ worker = "exited" =>
          \/ ~device
          \/ senders = 0 /\ receiver = <<>> /\ Len(done) = Len(sent)
    /\ (service = "ok" /\ senders > 0) => worker \in {"recv", "play"}

(* A Play that failed on both paths and whose reply channel was closed,    *)
(* and a later command that the worker completed all the same.             *)
C5_Witness ==
    \E i \in PlayEntries :
        /\ done[i].fast = "err" /\ done[i].fallback = "err"
        /\ ~done[i].replied
        /\ Len(done) > i
        /\ senders > 0

(* C6: PlayerService::new returns Ok only after the worker has initialised *)
(* the player; when initialisation fails it returns Err, the worker has    *)
(* exited and no command is ever sent or processed.                        *)
C6_ConstructionFatalWithoutDevice ==
    /\ service = "ok" => (new_default(device).res.ok /\ worker \in {"recv", "play", "exited"})
    /\ ~new_default(device).res.ok =>
          /\ service \in {"constructing", "err"}
          /\ sent = <<>> /\ done = <<>>
          /\ service = "err" => (worker \in {"unspawned", "exited"} /\ senders = 0)
          /\ worker \in {"unspawned", "spawned", "exited"}

(* new has returned Err after the worker failed to initialise the player.  *)
C6_Witness ==
    /\ ~device
    /\ service = "err"
    /\ worker = "exited"
    /\ ready = <<>>

----------------------------------------------------------------------------
(* The playback clock (PlaybackClock) and the controller operations built  *)
(* on the player: play, pause, resume, stop, seek, advance_or_rewind.      *)

Clock(st, pos, rs) == [state |-> st, position_ms |-> pos, running_since |-> rs]

current_position(c, t) ==
    IF c.running_since # None
    THEN c.position_ms + (t - c.running_since[1])
    ELSE c.position_ms

clock_play(t) == Clock("Playing", 0, Some(t))

(* As clock_pause, but the time played since running_since is dropped. *)
clock_pause_no_capture(c, t) ==
    IF c.state = "Playing" THEN Clock("Paused", c.position_ms, None) ELSE c

clock_pause(c, t) ==
    IF c.state = "Playing"
    THEN Clock("Paused", c.position_ms + (t - c.running_since[1]), None)
    ELSE c

(* As clock_resume, but running_since is restarted in every state. *)
clock_resume_unguarded(c, t) == Clock("Playing", c.position_ms, Some(t))

clock_resume(c, t) ==
    IF c.state = "Paused" THEN Clock("Playing", c.position_ms, Some(t)) ELSE c

clock_seek(target_ms, t) == Clock("Playing", target_ms, Some(t))

clock_stop == Clock("Stopped", 0, None)

(* The session a controller operation works on, and what it returns. *)
Session == [sink |-> sink, clock |-> clock, track |-> track, info |-> info]

Outcome(S, r) == [s |-> S, res |-> r]

(* play(locator): decode (fast path, then fallback), replace the queue,    *)
(* restart the clock at 0.                                                 *)
ctl_play(S, p, t) ==
    LET r == play_command(S.sink, p) IN
    IF r.res.ok
    THEN Outcome([sink |-> r.sink, clock |-> clock_play(t), track |-> Some(p),
                  info |-> r.res.val], r.res)
    ELSE Outcome([S EXCEPT !.sink = r.sink], r.res)

ctl_pause(S, t) ==
    Outcome([S EXCEPT !.clock = clock_pause(@, t), !.sink = pause(@)], Unit)

ctl_resume(S, t) ==
    Outcome([S EXCEPT !.clock = clock_resume(@, t), !.sink = resume(@)], Unit)

ctl_stop(S) ==
    Outcome([S EXCEPT !.clock = clock_stop, !.sink = stop(@)], Unit)

(* seek(target_ms) on the loaded locator. *)
ctl_seek(S, target_ms, t) ==
    LET r == seek_approx(S.sink, S.track[1], target_ms) IN
    Outcome([S EXCEPT !.sink = r.sink,
                      !.clock = CASE r.outcome = "queued" -> clock_seek(target_ms, t)
                                  [] r.outcome = "stopped" -> clock_stop
                                  [] OTHER -> @],
            r.res)

(* advance_or_rewind(delta_ms): seek to max(0, current_position + delta).  *)
advance_target(c, t, delta_ms) == Max(0, current_position(c, t) + delta_ms)

ctl_advance(S, delta_ms, t) == ctl_seek(S, advance_target(S.clock, t, delta_ms), t)

----------------------------------------------------------------------------
(* A playback session driven through the controller operations.            *)

Call(o, a, r, c) == [op |-> o, arg |-> a, res |-> r, pre |-> c]

(* What a call found: the clock state, the position and whether audio was  *)
(* queued.                                                                 *)
Pre ==
    [state |-> clock.state, position |-> current_position(clock, now),
     queued |-> sink.queue # <<>>, paused |-> sink.paused, prev |-> last.op]

TickMs == 1000

SeekTargets == {TickMs * k : k \in 0..MaxTime}
Deltas == {TickMs * k : k \in (0 - MaxTime)..MaxTime}

dvars == <<device, service, ready, worker, receiver, current, senders, sent,
           done, replies, callerGone, load>>

InitSession ==
    /\ sink = NewSink
    /\ device = TRUE
    /\ service = "constructing"
    /\ ready = <<>>
    /\ worker = "unspawned"
    /\ receiver = <<>>
    /\ current = None
    /\ senders = 1
    /\ sent = <<>>
    /\ done = <<>>
    /\ replies = [i \in 1..MaxCmds |-> <<>>]
    /\ callerGone = {}
    /\ clock = InitClock
    /\ track = None
    /\ info = None
    /\ now = 0
    /\ last = NoCall
    /\ load = NoLoad
    /\ cli = NoCli

(* The session after an operation, and the record of the call. *)
Apply(o, a, out) ==
    /\ sink' = out.s.sink
    /\ clock' = out.s.clock
    /\ track' = out.s.track
    /\ info' = out.s.info
    /\ last' = Call(o, a, out.res, Pre)

Play(p) ==
    /\ Apply("play", p, ctl_play(Session, p, now))
    /\ UNCHANGED <<now, cli>>
    /\ UNCHANGED dvars

Pause ==
    /\ Apply("pause", "", ctl_pause(Session, now))
    /\ UNCHANGED <<now, cli>>
    /\ UNCHANGED dvars

Resume ==
    /\ Apply("resume", "", ctl_resume(Session, now))
    /\ UNCHANGED <<now, cli>>
    /\ UNCHANGED dvars

Stop ==
    /\ Apply("stop", "", ctl_stop(Session))
    /\ UNCHANGED <<now, cli>>
    /\ UNCHANGED dvars

Seek ==
    /\ track # None
    /\ \E target_ms \in SeekTargets :
          Apply("seek", target_ms, ctl_seek(Session, target_ms, now))
    /\ UNCHANGED <<now, cli>>
    /\ UNCHANGED dvars

Advance ==
    /\ track # None
    /\ \E delta_ms \in Deltas :
          /\ advance_target(clock, now, delta_ms) \in SeekTargets
          /\ Apply("advance", delta_ms, ctl_advance(Session, delta_ms, now))
    /\ UNCHANGED <<now, cli>>
    /\ UNCHANGED dvars

(* Wall-clock time passes, and the device plays what the sink holds. *)
Tick ==
    /\ now < TickMs * MaxTime
    /\ now' = now + TickMs
    /\ sink' = sink_run(sink, TickMs)
    /\ last' = Call("tick", 0, Unit, Pre)
    /\ UNCHANGED <<clock, track, info, cli>>
    /\ UNCHANGED dvars

NextSession ==
    \/ \E p \in Locators : Play(p)
    \/ Pause
    \/ Resume
    \/ Stop
    \/ Seek
    \/ Advance
    \/ Tick

SpecSession == InitSession /\ [][NextSession]_vars

----------------------------------------------------------------------------
(* The command shell (cadence-cli).  A line is the sequence of its         *)
(* whitespace-separated words.                                             *)

Digits == {"0", "1", "2", "3", "4", "5", "6", "7", "8", "9"}

DigitValue(d) ==
    CASE d = "0" -> 0 [] d = "1" -> 1 [] d = "2" -> 2 [] d = "3" -> 3
      [] d = "4" -> 4 [] d = "5" -> 5 [] d = "6" -> 6 [] d = "7" -> 7
      [] d = "8" -> 8 [] OTHER -> 9

(* The characters of the words that can follow + or -. *)
Chars(w) ==
    CASE w = "+" -> <<"+">>
      [] w = "-" -> <<"-">>
      [] w = "1" -> <<"1">>
      [] w = "2" -> <<"2">>
      [] w = "-1" -> <<"-", "1">>
      [] OTHER -> <<"x">>

RECURSIVE digits_value(_)
digits_value(ds) ==
    IF ds = <<>> THEN 0
    ELSE 10 * digits_value(SubSeq(ds, 1, Len(ds) - 1)) + DigitValue(ds[Len(ds)])

(* str::parse::<i64>: an optional sign, then one or more digits. *)
parse_i64(s) ==
    LET signed == s # <<>> /\ s[1] \in {"+", "-"}
        body == IF signed THEN Tail(s) ELSE s
    IN IF body = <<>> \/ \E i \in 1..Len(body) : body[i] \notin Digits
       THEN None
       ELSE Some(IF signed /\ s[1] = "-" THEN 0 - digits_value(body)
                 ELSE digits_value(body))

Parsed(c, n) == [ok |-> TRUE, cmd |-> c, seconds |-> n, err |-> ""]
ParseError(e) == [ok |-> FALSE, cmd |-> "", seconds |-> 0, err |-> e]

(* As from_str, but a word that names no command is taken as stop. *)
from_str_unknown_stops(parts) ==
    IF parts = <<>> THEN ParseError("Empty command")
    ELSE CASE parts[1] = "pause" -> Parsed("Pause", 0)
           [] parts[1] = "resume" -> Parsed("Resume", 0)
           [] parts[1] \in {"+", "-"} ->
                IF Len(parts) < 2 THEN ParseError("Usage: +/- <seconds>")
                ELSE LET n == parse_i64(Chars(parts[1]) \o Chars(parts[2])) IN
                     IF n # None THEN Parsed("Advance", n[1])
                     ELSE ParseError("Invalid number")
           [] parts[1] \in {"quit", "q", "exit"} -> Parsed("Quit", 0)
           [] parts[1] \in {"help", "h"} -> Parsed("Help", 0)
           [] OTHER -> Parsed("Stop", 0)

(* impl FromStr for Command *)
from_str(parts) ==
    IF parts = <<>> THEN ParseError("Empty command")
    ELSE CASE parts[1] = "pause" -> Parsed("Pause", 0)
           [] parts[1] = "resume" -> Parsed("Resume", 0)
           [] parts[1] = "stop" -> Parsed("Stop", 0)
           [] parts[1] \in {"+", "-"} ->
                IF Len(parts) < 2 THEN ParseError("Usage: +/- <seconds>")
                ELSE LET n == parse_i64(Chars(parts[1]) \o Chars(parts[2])) IN
                     IF n # None THEN Parsed("Advance", n[1])
                     ELSE ParseError("Invalid number")
           [] parts[1] \in {"quit", "q", "exit"} -> Parsed("Quit", 0)
           [] parts[1] \in {"help", "h"} -> Parsed("Help", 0)
           [] OTHER -> ParseError("Unknown command")

Lines ==
    { <<>>, <<"pause">>, <<"resume">>, <<"stop">>, <<"+">>, <<"+", "1">>,
      <<"-", "1">>, <<"+", "2">>, <<"-", "x">>, <<"+", "-1">>, <<"quit">>,
      <<"q">>, <<"exit">>, <<"help">>, <<"h">>, <<"play">>, <<"pause", "x">> }

InitCli ==
    /\ sink = NewSink
    /\ device \in BOOLEAN
    /\ service = "constructing"
    /\ ready = <<>>
    /\ worker = "unspawned"
    /\ receiver = <<>>
    /\ current = None
    /\ senders = 1
    /\ sent = <<>>
    /\ done = <<>>
    /\ replies = [i \in 1..MaxCmds |-> <<>>]
    /\ callerGone = {}
    /\ clock = InitClock
    /\ track = None
    /\ info = None
    /\ now = 0
    /\ last = NoCall
    /\ load = NoLoad
    /\ \E p \in Locators : cli = [pc |-> "start", path |-> p, exit |-> None, line |-> <<>>]

(* main, lines 62-71: create the player, load and play the file; either    *)
(* error ends the process.                                                 *)
CliStart ==
    /\ cli.pc = "start"
    /\ LET made == new_default(device)
           r == load_and_play(sink, cli.path)
       IN IF ~made.res.ok
          THEN /\ cli' = [cli EXCEPT !.pc = "exited", !.exit = Some(made.res)]
               /\ last' = Call("start", cli.path, made.res, Pre)
               /\ UNCHANGED <<sink, clock, track, info>>
          ELSE IF ~r.res.ok
          THEN /\ cli' = [cli EXCEPT !.pc = "exited", !.exit = Some(r.res)]
               /\ last' = Call("start", cli.path, r.res, Pre)
               /\ sink' = r.sink
               /\ UNCHANGED <<clock, track, info>>
          ELSE /\ cli' = [cli EXCEPT !.pc = "repl"]
               /\ Apply("start", cli.path,
                        Outcome([sink |-> r.sink, clock |-> clock_play(now),
                                 track |-> Some(cli.path), info |-> r.res.val],
                                r.res))
    /\ UNCHANGED now
    /\ UNCHANGED dvars

(* main, lines 83-125: one line of input. *)
CliLine(line) ==
    /\ cli.pc = "repl"
    /\ IF line = <<>>
       THEN /\ last' = Call("empty", 0, Unit, Pre)
            /\ cli' = [cli EXCEPT !.line = line]
                   /\ UNCHANGED <<sink, clock, track, info>>
       ELSE LET c == from_str(line) IN
            CASE ~c.ok ->
                   /\ last' = Call("invalid", 0, Err(c.err), Pre)
                   /\ cli' = [cli EXCEPT !.line = line]
                   /\ UNCHANGED <<sink, clock, track, info>>
              [] c.ok /\ c.cmd = "Pause" ->
                   /\ Apply("pause", "", ctl_pause(Session, now))
                   /\ cli' = [cli EXCEPT !.line = line]
              [] c.ok /\ c.cmd = "Resume" ->
                   /\ Apply("resume", "", ctl_resume(Session, now))
                   /\ cli' = [cli EXCEPT !.line = line]
              [] c.ok /\ c.cmd = "Stop" ->
                   /\ Apply("stop", "", ctl_stop(Session))
                   /\ cli' = [cli EXCEPT !.line = line]
              [] c.ok /\ c.cmd = "Advance" ->
                   /\ advance_target(clock, now, c.seconds * 1000) <= TickMs * MaxTime
                   /\ Apply("advance", c.seconds * 1000,
                            ctl_advance(Session, c.seconds * 1000, now))
                   /\ cli' = [cli EXCEPT !.line = line]
              [] c.ok /\ c.cmd = "Quit" ->
                   /\ Apply("quit", "", ctl_stop(Session))
                   /\ cli' = [cli EXCEPT !.pc = "exited", !.exit = Some(Unit),
                                        !.line = line]
              [] OTHER ->
                   /\ last' = Call("help", 0, Unit, Pre)
                   /\ cli' = [cli EXCEPT !.line = line]
                   /\ UNCHANGED <<sink, clock, track, info>>
    /\ UNCHANGED now
    /\ UNCHANGED dvars

(* main, lines 83 and 127: standard input ends. *)
CliEof ==
    /\ cli.pc = "repl"
    /\ cli' = [cli EXCEPT !.pc = "exited", !.exit = Some(Unit)]
    /\ last' = Call("eof", 0, Unit, Pre)
    /\ UNCHANGED <<sink, clock, track, info, now>>
    /\ UNCHANGED dvars

NextCli ==
    \/ CliStart
    \/ \E line \in Lines : CliLine(line)
    \/ CliEof
    \/ Tick

SpecCli == InitCli /\ [][NextCli]_vars

----------------------------------------------------------------------------
(* One load of one file, on either path, over every file the decoders can  *)
(* meet: what File::open and the two decoders report, and every sequence   *)
(* of up to MaxPkts outcomes of next_packet and decode.                    *)

PacketOutcomes ==
    { Pkt("ok", <<1, 2>>, 1, 2), Pkt("ok", <<3>>, 1, 1),
      Pkt("other_track", <<9>>, 1, 2),
      Pkt("decode_error", <<>>, 0, 0), Pkt("reset", <<>>, 0, 0),
      Pkt("eof", <<>>, 0, 0),
      Pkt("io_error", <<>>, 0, 0), Pkt("decode_fatal", <<>>, 0, 0) }

PacketSeqs == UNION {[1..n -> PacketOutcomes] : n \in 0..MaxPkts}

(* codec_params.sample_rate and codec_params.channels *)
CodecParams ==
    { <<None, None>>, <<Some(1), Some(2)>>, <<Some(0), Some(2)>>,
      <<Some(1), Some(0)>> }

LoadFiles ==
    {[opens |-> o, rodio |-> r, total_duration |-> d,
      length |-> unwrap_or(d, 3000), probe |-> FALSE, sample_rate |-> None,
      channels |-> None, packets |-> <<>>] :
        o \in BOOLEAN, r \in BOOLEAN, d \in {None, Some(0), Some(3000)}}
    \cup
    {[opens |-> TRUE, rodio |-> FALSE, total_duration |-> None,
      length |-> 3000, probe |-> pr, sample_rate |-> c[1],
      channels |-> c[2], packets |-> ps] :
        pr \in BOOLEAN, c \in CodecParams, ps \in PacketSeqs}

(* The locators: one that is valid UTF-8 and one that is not. *)
LoadPaths == {"a.wav", "caf\\xE9.wav"}

svars == <<device, service, ready, worker, receiver, current, senders, sent,
           done, replies, callerGone>>

InitLoad ==
    /\ sink = NewSink
    /\ device = TRUE
    /\ service = "constructing"
    /\ ready = <<>>
    /\ worker = "unspawned"
    /\ receiver = <<>>
    /\ current = None
    /\ senders = 1
    /\ sent = <<>>
    /\ done = <<>>
    /\ replies = [i \in 1..MaxCmds |-> <<>>]
    /\ callerGone = {}
    /\ clock = InitClock
    /\ track = None
    /\ info = None
    /\ now = 0
    /\ last = NoCall
    /\ cli = NoCli
    /\ \E p \in LoadPaths, f \in LoadFiles :
          load = [pc |-> "input", path |-> p, file |-> f, via |-> "", out |-> <<>>]

Loaded(via, out) ==
    /\ sink' = out.sink
    /\ load' = [load EXCEPT !.pc = "done", !.via = via, !.out = out.res]
    /\ last' = Call(via, load.path, out.res, Pre)
    /\ UNCHANGED <<clock, track, info, now, cli>>
    /\ UNCHANGED svars

(* Player::load_and_play on the file *)
LoadFast ==
    /\ load.pc = "input"
    /\ Loaded("load_and_play", load_and_play_on(sink, load.path, load.file))

(* Player::load_and_play_symphonia on the file *)
LoadFallback ==
    /\ load.pc = "input"
    /\ Loaded("load_and_play_symphonia",
              load_and_play_symphonia_on(sink, load.path, load.file))

NextLoad ==
    \/ LoadFast
    \/ LoadFallback

SpecLoad == InitLoad /\ [][NextLoad]_vars

----------------------------------------------------------------------------
(* Properties of a playback session (SpecSession).                         *)

Position == current_position(clock, now)

DurationKnown == info # None /\ info[1].duration_ms # None

(* C2: a Play or Seek that returns an error leaves the sink's queue, its   *)
(* pause flag and the clock as they were before the call.                  *)
C2_FailureLeavesStateUntouched ==
    [][(last'.op \in {"play", "seek"} /\ ~last'.res.ok)
          => (sink' = sink /\ clock' = clock /\ track' = track)]_vars

(* A Play that failed on both paths, issued while Paused with audio queued. *)
C2_Witness ==
    /\ last.op = "play" /\ ~last.res.ok
    /\ last.pre.state = "Paused" /\ last.pre.queued /\ last.pre.paused
    /\ sink.queue # <<>> /\ sink.paused /\ clock.state = "Paused"

(* C3: a Seek with an in-range target fails only when both the fast path   *)
(* and the fallback fail on the loaded locator.                            *)
C3_SeekFailsOnlyIfBothPathsFail ==
    (/\ last.op = "seek" /\ ~last.res.ok
     /\ track # None /\ DurationKnown /\ last.arg < info[1].duration_ms[1])
        => ~play_command(NewSink, track[1]).res.ok

(* C7: a successful Play, from any state, leaves the sink holding the new  *)
(* stream alone and playing, and the clock Playing at position 0 with      *)
(* running_since = now.                                                    *)
C7_PlayStartsAtZero ==
    [][(last'.op = "play" /\ last'.res.ok)
          => /\ Len(sink'.queue) = 1
             /\ sink'.queue[1].path = last'.arg
             /\ sink'.queue[1].skip = 0
             /\ ~sink'.paused
             /\ clock' = Clock("Playing", 0, Some(now'))
             /\ current_position(clock', now') = 0]_vars

(* A successful Play issued while Paused (sink paused, audio queued). *)
C7_Witness ==
    /\ last.op = "play" /\ last.res.ok
    /\ last.pre.state = "Paused" /\ last.pre.paused /\ last.pre.queued
    /\ ~sink.paused /\ clock.state = "Playing"

(* C8: Pause keeps the current position, the position is constant while    *)
(* the state stays Paused however much time passes, and Resume from        *)
(* Paused keeps it too: the position right after Resume is the position    *)
(* right before Pause.                                                     *)
C8_PauseResumeHoldsPosition ==
    [][/\ (last'.op = "pause" /\ clock.state = "Playing")
            => (clock'.state = "Paused"
                /\ current_position(clock', now') = current_position(clock, now))
       /\ (clock.state = "Paused" /\ clock'.state = "Paused")
            => current_position(clock', now') = current_position(clock, now)
       /\ (last'.op = "resume" /\ clock.state = "Paused")
            => (clock'.state = "Playing"
                /\ current_position(clock', now') = current_position(clock, now))]_vars

(* A Resume after time has passed while Paused at a position above 0. *)
C8_Witness ==
    /\ last.op = "resume"
    /\ last.pre.state = "Paused" /\ last.pre.prev = "tick"
    /\ last.pre.position > 0
    /\ clock.state = "Playing" /\ Position = last.pre.position

(* C9: while the state stays Playing and no Play, Seek or Advance takes    *)
(* effect, the current position never decreases as time advances.          *)
C9_PositionMonotonicWhilePlaying ==
    [][(/\ clock.state = "Playing" /\ clock'.state = "Playing"
        /\ (last'.op \in {"tick", "pause", "resume"} \/ ~last'.res.ok))
          => current_position(clock', now') >= current_position(clock, now)]_vars

(* Time has advanced while Playing and the position with it, after a       *)
(* Resume issued while already Playing.                                    *)
C9_Witness ==
    /\ last.op = "tick" /\ last.pre.state = "Playing" /\ last.pre.prev = "resume"
    /\ last.pre.position > 0
    /\ clock.state = "Playing"
    /\ Position = last.pre.position + TickMs

(* C10: a Seek to a target at or past a known duration, from Playing or    *)
(* Paused, returns success and leaves the session Stopped: nothing queued, *)
(* position 0.                                                             *)
C10_SeekPastEndStops ==
    (/\ last.op = "seek" /\ last.pre.state \in {"Playing", "Paused"}
     /\ DurationKnown /\ last.arg >= info[1].duration_ms[1])
        => /\ last.res.ok
           /\ clock.state = "Stopped"
           /\ sink.queue = <<>>
           /\ Position = 0

(* C11: a Seek to a target below the known duration, from Playing or       *)
(* Paused, returns success and leaves exactly one stream queued, the       *)
(* loaded track minus its first target ms, with the sink playing, the      *)
(* clock Playing with running_since set, and the position at the target.   *)
C11_SeekInRangePlaysFromTarget ==
    (/\ last.op = "seek" /\ last.pre.state \in {"Playing", "Paused"}
     /\ DurationKnown /\ last.arg < info[1].duration_ms[1])
        => /\ last.res.ok
           /\ Len(sink.queue) = 1
           /\ sink.queue[1].path = track[1]
           /\ sink.queue[1].skip = last.arg
           /\ ~sink.paused
           /\ clock.state = "Playing" /\ clock.running_since # None
           /\ Position = last.arg

(* C12: advance_or_rewind(delta) ends where a Seek to                      *)
(* max(0, position + delta) ends: the position is never negative, a target *)
(* at or past a known duration leaves the session Stopped at position 0,   *)
(* and any other target leaves it Playing at the target.                   *)
C12_AdvanceIsClampedSeek ==
    last.op = "advance" =>
        LET target == Max(0, last.pre.position + last.arg) IN
        /\ last.res.ok
        /\ Position >= 0
        /\ IF DurationKnown /\ target >= info[1].duration_ms[1]
           THEN clock.state = "Stopped" /\ sink.queue = <<>> /\ Position = 0
           ELSE /\ clock.state = "Playing" /\ Position = target
                /\ Len(sink.queue) = 1 /\ sink.queue[1].skip = target
                /\ ~sink.paused

(* The sink is playing: it holds audio and is not paused. *)
SinkPlaying == sink.queue # <<>> /\ ~sink.paused

(* The loaded stream has played to its end, or was sought past it. *)
PlayedOut == track # None /\ Position >= FileTable[track[1]].length

C15_PauseResumeAfterStopAreNoOps ==
    [][/\ last'.op = "stop"
            => /\ last'.res.ok
               /\ sink'.queue = <<>>
               /\ clock'.state = "Stopped"
               /\ current_position(clock', now') = 0
       /\ (clock.state = "Stopped" /\ last'.op \in {"pause", "resume"})
            => /\ last'.res.ok
               /\ clock'.state = "Stopped"
               /\ sink'.queue = <<>>
               /\ current_position(clock', now') = 0
               /\ track' = track /\ info' = info]_vars

(* A Resume after a Pause, both issued after a track was stopped. *)
C15_Witness ==
    /\ last.op = "resume" /\ last.pre.prev = "pause"
    /\ last.pre.state = "Stopped" /\ last.pre.paused
    /\ track # None
    /\ clock.state = "Stopped" /\ sink.queue = <<>> /\ Position = 0

----------------------------------------------------------------------------
(* Properties of one load (SpecLoad).                                      *)

(* What a packet sequence is to yield, stated apart from the loop: the     *)
(* stream ends at the first packet that is neither decoded nor skipped;    *)
(* the load goes on iff that packet is the end of the stream; the decoded  *)
(* packets are the "ok" ones before it.                                    *)
Passes(pkt) == pkt.kind \in {"ok", "other_track", "decode_error", "reset"}

StreamEnd(pkts) ==
    IF \A i \in 1..Len(pkts) : Passes(pkts[i]) THEN Len(pkts) + 1
    ELSE CHOOSE i \in 1..Len(pkts) :
            /\ ~Passes(pkts[i])
            /\ \A j \in 1..(i - 1) : Passes(pkts[j])

StreamEndsNormally(pkts) ==
    StreamEnd(pkts) = Len(pkts) + 1 \/ pkts[StreamEnd(pkts)].kind = "eof"

IsDecoded(pkt) == pkt.kind = "ok"

DecodedPackets(pkts) ==
    SelectSeq(SubSeq(pkts, 1, StreamEnd(pkts) - 1), IsDecoded)

RECURSIVE SamplesOf(_)
SamplesOf(dec) ==
    IF dec = <<>> THEN <<>> ELSE Head(dec).samples \o SamplesOf(Tail(dec))

(* The sample rate and channel count of the last decoded packet, or of    *)
(* the codec parameters, or the defaults.                                  *)
FinalRate(f) ==
    LET dec == DecodedPackets(f.packets) IN
    IF dec # <<>> THEN dec[Len(dec)].rate
    ELSE IF f.sample_rate # None THEN f.sample_rate[1] ELSE 48000

FinalChannels(f) ==
    LET dec == DecodedPackets(f.packets) IN
    IF dec # <<>> THEN dec[Len(dec)].channels
    ELSE IF f.channels # None THEN f.channels[1] ELSE 2

LoadSucceeded == load.pc = "done" /\ load.out.ok

DurationAsSpecified ==
    IF load.via = "load_and_play"
    THEN load.out.val[1].duration_ms = load.file.total_duration
    ELSE LET n == Len(SamplesOf(DecodedPackets(load.file.packets)))
             sr == FinalRate(load.file)
             ch == FinalChannels(load.file)
         IN load.out.val[1].duration_ms =
                IF sr > 0 /\ ch > 0 THEN Some((n * 1000) \div (sr * ch)) ELSE None

C17_DecodeLoopYieldsDecodedSamples ==
    (/\ load.pc = "done" /\ load.via = "load_and_play_symphonia"
     /\ load.file.opens /\ load.file.probe)
        => /\ load.out.ok <=> StreamEndsNormally(load.file.packets)
           /\ load.out.ok
                => /\ Len(sink.queue) = 1
                   /\ sink.queue[1].samples =
                          SamplesOf(DecodedPackets(load.file.packets))
           /\ ~load.out.ok => sink = NewSink

(* A stream whose second packet failed to decode, loaded with the samples  *)
(* of the first and the third.                                             *)
C17_Witness ==
    /\ LoadSucceeded /\ load.via = "load_and_play_symphonia"
    /\ Len(load.file.packets) = 3
    /\ load.file.packets[1].kind = "ok"
    /\ load.file.packets[2].kind = "decode_error"
    /\ load.file.packets[3].kind = "ok"
    /\ sink.queue # <<>>
    /\ sink.queue[1].samples = load.file.packets[1].samples \o load.file.packets[3].samples

----------------------------------------------------------------------------
(* Properties of the command shell (SpecCli).                              *)

CommandWords ==
    {"pause", "resume", "stop", "+", "-", "quit", "q", "exit", "help", "h"}

NumberWords == {"1", "2"}

(* A line the shell cannot parse: empty, a first word that names no        *)
(* command, or + / - without a number after it.                            *)
Unparsable(line) ==
    \/ line = <<>>
    \/ line[1] \notin CommandWords
    \/ line[1] \in {"+", "-"} /\ (Len(line) < 2 \/ line[2] \notin NumberWords)

(* C18: a line of input the shell cannot parse changes nothing of the      *)
(* player (sink, clock, loaded track) and leaves the shell reading lines.  *)
C18_UnparsableLineIsRejected ==
    [][(/\ cli.pc = "repl"
        /\ last'.op \notin {"start", "eof", "tick"}
        /\ Unparsable(cli'.line))
          => /\ sink' = sink /\ clock' = clock
             /\ track' = track /\ info' = info
             /\ last'.op \in {"empty", "invalid"}
             /\ cli'.pc = "repl"]_vars

(* A - with a word that is no number was read while a track was playing,  *)
(* on the line after a pause and a resume.                                 *)
C18_Witness ==
    /\ last.op = "invalid" /\ cli.line = <<"-", "x">>
    /\ last.pre.prev = "resume" /\ last.pre.state = "Playing"
    /\ clock.state = "Playing" /\ sink.queue # <<>> /\ ~sink.paused
    /\ cli.pc = "repl"

----------------------------------------------------------------------------
(* Properties of the reply channels (SpecFair).                            *)

PlayIds == {i \in 1..Len(sent) : sent[i].type = "Play"}

(* The caller of Play i is blocked in reply_rx.recv(). *)
Blocked(i) == i \in PlayIds /\ replies[i] = <<>> /\ i \notin callerGone

(* Play i has been decoded and queued, or has failed on both paths. *)
Handled(i) == \E k \in 1..Len(done) : done[k].cmd.id = i

Pending(i) ==
    \/ \E k \in 1..Len(receiver) : receiver[k].id = i
    \/ current # None /\ current[1].id = i

(* What the reply to a Play of p carries: the fast path's TrackInfo, or    *)
(* what the fallback returned.                                             *)
ExpectedReply(p) ==
    LET fast == load_and_play(NewSink, p).res IN
    IF fast.ok THEN fast ELSE load_and_play_symphonia(NewSink, p).res

RepliesInOrder ==
    /\ \A i \in 1..MaxCmds :
          /\ Len(replies[i]) <= 1
          /\ replies[i] # <<>>
                => /\ i \in PlayIds /\ Handled(i)
                   /\ replies[i][1] = ExpectedReply(sent[i].path)
          /\ (i \in PlayIds /\ Handled(i) /\ i \notin callerGone)
                => Len(replies[i]) = 1
          /\ Blocked(i) => (Pending(i) /\ worker \in {"recv", "play"})

(* C19: every Play the worker has handled has exactly one reply on its own *)
(* reply channel (none if its caller had gone), carrying the TrackInfo or  *)
(* the fallback's error for its own locator and sent once the decode and   *)
(* the queueing are done; no reply channel ever holds a second reply; and  *)
(* no caller stays blocked in PlayerService::play for ever.                *)
C19_EveryPlayIsAnswered ==
    /\ []RepliesInOrder
    /\ \A i \in 1..MaxCmds : []<>(~Blocked(i))

(* Two Plays answered, each on its own channel: the first with the         *)
(* fallback's error, the second with the TrackInfo of its own locator.     *)
C19_Witness ==
    /\ Len(sent) >= 2
    /\ sent[1].type = "Play" /\ sent[2].type = "Play"
    /\ sent[1].path = "c.txt" /\ sent[2].path = "b.ogg"
    /\ Len(replies[1]) = 1 /\ ~replies[1][1].ok
    /\ Len(replies[2]) = 1 /\ replies[2][1].ok
    /\ replies[2][1].val[1].path = "b.ogg"

----------------------------------------------------------------------------
(* The position against the duration (SpecSession).                        *)

====
